---- MODULE Spec2Model ----
(***************************************************************************)
(* State-machine model of the GitHubProjects page component                *)
(* (src/src/pages/GitHubProjects.tsx).                                     *)
(*                                                                         *)
(* The React state cells of the component are the variables.  One action   *)
(* is one event handler (or the continuation of handleSelectRepo after its *)
(* await), run to completion together with the re-render and the passive   *)
(* effects (useEffect) that its state updates trigger.  Strings are        *)
(* sequences of one-character strings so that toLowerCase and includes are *)
(* computed, not assumed.                                                  *)
(***************************************************************************)
EXTENDS Integers, Sequences, FiniteSets, Bags, TLC

VARIABLES
    projects,             \* useState<Project[]>            (line 76)
    globalCategories,     \* useState<Category[]>           (line 77)
    selectedProject,      \* useState<Project | null>       (line 72): <<>> or <<p>>
    isCategoryDialogOpen, \* useState(false)                (line 73)
    projectSearch,        \* useState('')                   (line 74)
    selectedCategories,   \* useState<string[]>([])         (line 75)
    isDiscoveryMode,      \* useState(false)                (line 80)
    isLoading,            \* useState(false)                (line 81)
    storedProjects,       \* what utils/store holds after setProjects
    storedCategories,     \* what utils/store holds after setCategories
    pending               \* bag of getRepoDetails promises not yet settled:
                          \* [repo, ok, details], ok telling whether the
                          \* promise will resolve (to details) or reject

vars == <<projects, globalCategories, selectedProject, isCategoryDialogOpen,
          projectSearch, selectedCategories, isDiscoveryMode, isLoading,
          storedProjects, storedCategories, pending>>

(***************************************************************************)
(* Bounds of the model.                                                    *)
(***************************************************************************)
MaxProjects == 2     \* projects in the list plus fetches in flight
MaxCats == 1         \* categories on one project
MaxLangs == 3        \* languages in one details.languages map
MaxFilterLen == 2    \* projects in a list loaded for the filter

(***************************************************************************)
(* Generic helpers on sequences.                                           *)
(***************************************************************************)
Range(s) == { s[i] : i \in 1..Len(s) }

RECURSIVE Filter(_, _)
\* Array.prototype.filter: keeps, in order, the elements for which keep[i].
Filter(s, keep) ==
    IF s = <<>> THEN <<>>
    ELSE LET rest == Filter(Tail(s), [i \in 1..(Len(s) - 1) |-> keep[i + 1]])
         IN  IF keep[1] THEN <<Head(s)>> \o rest ELSE rest

RECURSIVE Sum(_)
Sum(s) == IF s = <<>> THEN 0 ELSE Head(s) + Sum(Tail(s))

(***************************************************************************)
(* IEEE-754 binary64 arithmetic, as far as line 312 needs it:              *)
(*     Math.round((bytes / totalBytes) * 100)                              *)
(* with 1 <= bytes <= totalBytes integers.  A double is a record           *)
(* [m |-> 53 bits, most significant first and leading bit 1, e |-> the     *)
(* exponent of the leading bit]; every intermediate result is rounded to   *)
(* nearest, ties to even, as the JavaScript Number type does.              *)
(***************************************************************************)
DoubleBits == 53

RECURSIVE Pow2(_)
Pow2(k) == IF k = 0 THEN 1 ELSE 2 * Pow2(k - 1)

RECURSIVE BitsToInt(_)
BitsToInt(bits) ==
    IF bits = <<>> THEN 0
    ELSE 2 * BitsToInt(SubSeq(bits, 1, Len(bits) - 1)) + bits[Len(bits)]

\* bits + 1 on a fixed width; an all-ones input wraps to all zeros.
IncBits(bits) ==
    LET zeros == { i \in 1..Len(bits) : bits[i] = 0 }
        p == IF zeros = {} THEN 0
             ELSE CHOOSE i \in zeros : \A j \in zeros : j <= i
    IN  [i \in 1..Len(bits) |-> IF i < p THEN bits[i] ELSE IF i = p THEN 1 ELSE 0]

\* Round to nearest, ties to even.  half is -1, 0 or 1: the discarded tail is
\* below, at or above half a unit in the last place of m.
RoundNearestEven(m, e, half) ==
    IF half = 1 \/ (half = 0 /\ m[Len(m)] = 1)
    THEN LET up == IncBits(m)
         IN  IF up[1] = 0
             THEN [m |-> <<1>> \o SubSeq(up, 1, Len(up) - 1), e |-> e + 1]
             ELSE [m |-> up, e |-> e]
    ELSE [m |-> m, e |-> e]

RECURSIVE NormShift(_, _)
\* The number of doublings that bring r (1 <= r <= t) into [t, 2t).
NormShift(r, t) == IF r >= t THEN 0 ELSE 1 + NormShift(2 * r, t)

RECURSIVE PowMod2(_, _)
\* 2^j modulo t, by repeated squaring.
PowMod2(j, t) ==
    IF j = 0 THEN 1 % t
    ELSE LET h == PowMod2(j \div 2, t)
         IN  (((h * h) % t) * (IF j % 2 = 1 THEN 2 ELSE 1)) % t

\* (b * 2^j) modulo t: the remainder of the long division of b by t after j
\* binary places.
RemAfter(b, t, j) == ((b % t) * PowMod2(j, t)) % t

\* The binary digit of weight 2^(-j) of b / t, j >= 1 and b < t.
QuotBit(b, t, j) == (2 * RemAfter(b, t, j - 1)) \div t

\* bytes / totalBytes, correctly rounded (1 <= b <= t).
DoubleDiv(b, t) ==
    IF b = t
    THEN [m |-> [i \in 1..DoubleBits |-> IF i = 1 THEN 1 ELSE 0], e |-> 0]
    ELSE LET k == NormShift(b, t)
             m == [i \in 1..DoubleBits |-> QuotBit(b, t, k + i - 1)]
             rem == RemAfter(b, t, k + DoubleBits - 1)
             half == IF 2 * rem > t THEN 1 ELSE IF 2 * rem = t THEN 0 ELSE -1
         IN  RoundNearestEven(m, 0 - k, half)

\* A bit string as digits in base 2^10 (left-padded), and back.

ToDigits(bits) ==
    LET n == (Len(bits) + 10 - 1) \div 10
        pad == n * 10 - Len(bits)
        padded == [i \in 1..(n * 10) |-> IF i <= pad THEN 0 ELSE bits[i - pad]]
    IN  [d \in 1..n |-> BitsToInt(SubSeq(padded, (d - 1) * 10 + 1, d * 10))]

FromDigits(digits) ==
    LET raw == [i \in 1..(Len(digits) * 10) |->
                   (digits[((i - 1) \div 10) + 1]
                       \div Pow2(10 - 1 - ((i - 1) % 10))) % 2]
        ones == { i \in 1..Len(raw) : raw[i] = 1 }
        first == CHOOSE i \in ones : \A j \in ones : i <= j
    IN  SubSeq(raw, first, Len(raw))

RECURSIVE MulDigits(_, _, _)
\* digits * c + carry, schoolbook, least significant digit last.
MulDigits(digits, c, carry) ==
    IF digits = <<>> THEN <<carry>>
    ELSE LET v == digits[Len(digits)] * c + carry
         IN  MulDigits(SubSeq(digits, 1, Len(digits) - 1), c, v \div Pow2(10))
                \o <<v % Pow2(10)>>

\* The exact product of a bit string (leading bit 1) and a small natural c >= 1.
MulBits(bits, c) == FromDigits(MulDigits(ToDigits(bits), c, 0))

\* x * c for a small natural c >= 1, correctly rounded.
DoubleMulSmall(x, c) ==
    LET prod == MulBits(x.m, c)
        extra == Len(prod) - DoubleBits
        tail == SubSeq(prod, DoubleBits + 1, Len(prod))
        half == IF extra = 0 \/ tail[1] = 0 THEN -1
                ELSE IF \A i \in 2..extra : tail[i] = 0 THEN 0 ELSE 1
    IN  RoundNearestEven(SubSeq(prod, 1, DoubleBits), x.e + extra, half)

\* Math.round: the nearest integer, a tie going up (x > 0 here).
MathRound(x) ==
    IF x.e < -1 THEN 0
    ELSE BitsToInt(SubSeq(x.m, 1, x.e + 1)) + x.m[x.e + 2]

\* Fault: Math.floor in place of Math.round.
percentageOfFloor(bytes, totalBytes) == (100 * bytes) \div totalBytes

\* Line 312: Math.round((bytes / totalBytes) * 100).
percentageOf(bytes, totalBytes) ==
    MathRound(DoubleMulSmall(DoubleDiv(bytes, totalBytes), 100))

\* Round half up of 100 * bytes / totalBytes in exact arithmetic.
ExactRoundHalfUp(bytes, totalBytes) ==
    (200 * bytes + totalBytes) \div (2 * totalBytes)

(***************************************************************************)
(* Data.  A string is a sequence of characters.  A Category is             *)
(* [id, name] (its color is carried along unread and is left out); a       *)
(* Project is [id, name, description, categories, languages] (the other    *)
(* fields of lines 39-69 are copied from the repository record and never   *)
(* read by the operations).                                                *)
(***************************************************************************)
Cat1 == [id |-> "c1", name |-> <<"u", "i">>]
Cat2 == [id |-> "c2", name |-> <<"u", "i">>]
Cat3 == [id |-> "c3", name |-> <<"d", "b">>]

\* What the category dialog can emit: two categories that share a name.
Categories == { Cat1, Cat2 }

CategoryIds == { "c1", "c2", "c3" }

\* Repository records the discovery component can emit (GitHubRepo); a null
\* description is <<>>, a present one is <<string>>.
Repos ==
    { [id |-> 1, name |-> <<"A", "b">>, description |-> <<>>],
      [id |-> 2, name |-> <<"b">>, description |-> << <<"B", "a">> >>] }

SearchStrings == { <<>>, <<"B">>, <<"a", "b">>, <<"b", "A">> }

LangNames == <<"TypeScript", "JavaScript", "CSS", "HTML", "Shell">>

\* details.languages as Object.entries sees it: [name, bytes] in key order.
LangMap(bytes) == [i \in 1..Len(bytes) |-> [name |-> LangNames[i], bytes |-> bytes[i]]]

\* The details GitHub holds for a repository, which getRepoDetails resolves to
\* when it does not reject: {TypeScript: 300, JavaScript: 100} for one
\* repository, no language at all for the other.
detailsOf(repo) ==
    [languages |-> IF repo.id = 1 THEN LangMap(<<300, 100>>) ELSE <<>>]

(***************************************************************************)
(* String.prototype.toLowerCase and String.prototype.includes.             *)
(***************************************************************************)
LowerChar(ch) ==
    CASE ch = "A" -> "a"
      [] ch = "B" -> "b"
      [] OTHER -> ch

toLowerCase(str) == [i \in 1..Len(str) |-> LowerChar(str[i])]

includes(str, sub) ==
    \E k \in 0..(Len(str) - Len(sub)) : SubSeq(str, k + 1, k + Len(sub)) = sub

(***************************************************************************)
(* filteredProjects (lines 149-159).                                       *)
(***************************************************************************)
matchesSearch(project, search) ==
    \/ includes(toLowerCase(project.name), toLowerCase(search))
    \/ includes(toLowerCase(project.description), toLowerCase(search))

\* Fault: some in place of every (any selected category suffices).
matchesCategoriesAny(project, selCats) ==
    \/ Len(selCats) = 0
    \/ \E i \in 1..Len(selCats) :
          \E j \in 1..Len(project.categories) : project.categories[j].id = selCats[i]

matchesCategories(project, selCats) ==
    \/ Len(selCats) = 0
    \/ \A i \in 1..Len(selCats) :
          \E j \in 1..Len(project.categories) : project.categories[j].id = selCats[i]

filterProjects(projs, search, selCats) ==
    Filter(projs, [i \in 1..Len(projs) |->
                      matchesSearch(projs[i], search) /\ matchesCategories(projs[i], selCats)])

filteredProjects == filterProjects(projects, projectSearch, selectedCategories)

(***************************************************************************)
(* Language normalisation (lines 309-313).                                 *)
(***************************************************************************)
RECURSIVE InsertDesc(_, _)
\* Array.prototype.sort with (a, b) => b.percentage - a.percentage is stable:
\* x, which preceded every element of sorted, stays ahead of its equals.
InsertDesc(x, sorted) ==
    IF sorted = <<>> THEN <<x>>
    ELSE IF Head(sorted).percentage > x.percentage
         THEN <<Head(sorted)>> \o InsertDesc(x, Tail(sorted))
         ELSE <<x>> \o sorted

RECURSIVE sortByPercentage(_)
sortByPercentage(s) ==
    IF s = <<>> THEN <<>> ELSE InsertDesc(Head(s), sortByPercentage(Tail(s)))

totalBytesOf(langs) == Sum([i \in 1..Len(langs) |-> langs[i].bytes])

normalizeLanguages(langs) ==
    sortByPercentage([i \in 1..Len(langs) |->
        [name |-> langs[i].name,
         percentage |-> percentageOf(langs[i].bytes, totalBytesOf(langs))]])

\* The project object of lines 315-345.
newProject(repo, details) ==
    [id |-> ToString(repo.id),
     name |-> repo.name,
     description |-> IF repo.description = <<>> \/ repo.description[1] = <<>>
                     THEN <<>> ELSE repo.description[1],
     categories |-> <<>>,
     languages |-> normalizeLanguages(details.languages)]

(***************************************************************************)
(* The list updates of lines 91-139, as functions of the values read.      *)
(***************************************************************************)
\* Fault: a project whose id is in the list is not appended.
addProjectUpdateDedup(prev, project) ==
    IF \E i \in 1..Len(prev) : prev[i].id = project.id THEN prev ELSE Append(prev, project)

\* addProject's updater: prev => [...prev, project]
addProjectUpdate(prev, project) == Append(prev, project)

\* Fault: only the first project with the id is taken out.
removeProjectUpdateFirst(prev, id) ==
    LET hits == { i \in 1..Len(prev) : prev[i].id = id }
        first == IF hits = {} THEN 0 ELSE CHOOSE i \in hits : \A j \in hits : i <= j
    IN  SubSeq(prev, 1, first - 1) \o SubSeq(prev, first + 1, Len(prev))

\* removeProject's updater: prev => prev.filter(p => p.id !== id)
removeProjectUpdate(prev, id) ==
    Filter(prev, [i \in 1..Len(prev) |-> prev[i].id # id])

\* Fault: the id test is missing, every project gains the category.
addCategoryUpdateAll(projs, selected, category) ==
    [i \in 1..Len(projs) |-> [projs[i] EXCEPT !.categories = Append(@, category)]]

\* addCategory's projects.map(...) (lines 101-109)
addCategoryUpdate(projs, selected, category) ==
    [i \in 1..Len(projs) |->
        IF projs[i].id = selected.id
        THEN [projs[i] EXCEPT !.categories = Append(@, category)]
        ELSE projs[i]]

\* removeCategory's projects.map(...) (lines 124-132)
removeCategoryUpdate(projs, selected, categoryId) ==
    [i \in 1..Len(projs) |->
        IF projs[i].id = selected.id
        THEN [projs[i] EXCEPT !.categories =
                 Filter(@, [j \in 1..Len(@) |-> @[j].id # categoryId])]
        ELSE projs[i]]

\* The selected-project view after addCategory (lines 111-114) and after
\* removeCategory (lines 134-137).
selectedWithCategory(selected, category) ==
    [selected EXCEPT !.categories = Append(@, category)]

selectedWithoutCategory(selected, categoryId) ==
    [selected EXCEPT !.categories =
        Filter(@, [j \in 1..Len(@) |-> @[j].id # categoryId])]

\* Lines 116-118: the global list gains the category when no entry has its name.
globalWithCategory(globals, category) ==
    IF \E i \in 1..Len(globals) : globals[i].name = category.name
    THEN globals
    ELSE Append(globals, category)

\* toggleCategoryFilter's updater (lines 142-146)
toggleUpdate(prev, categoryId) ==
    IF categoryId \in Range(prev)
    THEN Filter(prev, [i \in 1..Len(prev) |-> prev[i] # categoryId])
    ELSE Append(prev, categoryId)

(***************************************************************************)
(* Initial state: the component mounted over an empty store                *)
(* (getProjects() and getCategories() return null or []), after the two    *)
(* mount effects of lines 83-89 have written the lists back.               *)
(***************************************************************************)
Init ==
    /\ projects = <<>>
    /\ globalCategories = <<>>
    /\ selectedProject = <<>>
    /\ isCategoryDialogOpen = FALSE
    /\ projectSearch = <<>>
    /\ selectedCategories = <<>>
    /\ isDiscoveryMode = FALSE
    /\ isLoading = FALSE
    /\ storedProjects = <<>>
    /\ storedCategories = <<>>
    /\ pending = EmptyBag

(***************************************************************************)
(* Handlers.  A call of setProjectsState installs a new array, so the      *)
(* effect of lines 83-85 runs and setProjects writes the whole new list;   *)
(* likewise setGlobalCategories and lines 87-89.                           *)
(***************************************************************************)
\* Lines 358-360; the button is in the page header in every view.
toggleDiscoveryMode ==
    /\ isDiscoveryMode' = ~isDiscoveryMode
    /\ UNCHANGED <<projects, globalCategories, selectedProject, isCategoryDialogOpen,
                   projectSearch, selectedCategories, isLoading, storedProjects,
                   storedCategories, pending>>

\* SearchBar onChange (lines 371-375), shown outside discovery mode.
setProjectSearch(value) ==
    /\ ~isDiscoveryMode
    /\ projectSearch' = value
    /\ UNCHANGED <<projects, globalCategories, selectedProject, isCategoryDialogOpen,
                   selectedCategories, isDiscoveryMode, isLoading, storedProjects,
                   storedCategories, pending>>

\* Lines 141-147, from CategoryFilter (lines 423-427), which lists the global
\* categories in the saved-projects view.
toggleCategoryFilter(categoryId) ==
    /\ selectedProject = <<>>
    /\ ~isDiscoveryMode
    /\ \E i \in 1..Len(globalCategories) : globalCategories[i].id = categoryId
    /\ selectedCategories' = toggleUpdate(selectedCategories, categoryId)
    /\ UNCHANGED <<projects, globalCategories, selectedProject, isCategoryDialogOpen,
                   projectSearch, isDiscoveryMode, isLoading, storedProjects,
                   storedCategories, pending>>

\* ProjectCard onClick (line 162): a card of the filtered list is clicked.
selectProject(i) ==
    /\ selectedProject = <<>>
    /\ ~isDiscoveryMode
    /\ selectedProject' = <<filteredProjects[i]>>
    /\ UNCHANGED <<projects, globalCategories, isCategoryDialogOpen, projectSearch,
                   selectedCategories, isDiscoveryMode, isLoading, storedProjects,
                   storedCategories, pending>>

\* Lines 95-97 and the effect of lines 83-85.
removeProject(id) ==
    /\ projects' = removeProjectUpdate(projects, id)
    /\ storedProjects' = projects'
    /\ UNCHANGED <<globalCategories, selectedProject, isCategoryDialogOpen,
                   projectSearch, selectedCategories, isDiscoveryMode, isLoading,
                   storedCategories, pending>>

\* The trash button of a card of the filtered list (lines 187-191).
cardRemoveProject(i) ==
    /\ selectedProject = <<>>
    /\ ~isDiscoveryMode
    /\ removeProject(filteredProjects[i].id)

\* onBack (line 463).
onBack ==
    /\ selectedProject # <<>>
    /\ selectedProject' = <<>>
    /\ UNCHANGED <<projects, globalCategories, isCategoryDialogOpen, projectSearch,
                   selectedCategories, isDiscoveryMode, isLoading, storedProjects,
                   storedCategories, pending>>

\* onCategoryDialogOpen (line 464) and the dialog's onClose (line 472).
setIsCategoryDialogOpen(open) ==
    /\ selectedProject # <<>>
    /\ isCategoryDialogOpen # open
    /\ isCategoryDialogOpen' = open
    /\ UNCHANGED <<projects, globalCategories, selectedProject, projectSearch,
                   selectedCategories, isDiscoveryMode, isLoading, storedProjects,
                   storedCategories, pending>>

\* Lines 99-120, with the effects of lines 83-89.
addCategory(category) ==
    IF selectedProject # <<>>
    THEN /\ projects' = addCategoryUpdate(projects, selectedProject[1], category)
         /\ storedProjects' = projects'
         /\ selectedProject' = <<selectedWithCategory(selectedProject[1], category)>>
         /\ globalCategories' = globalWithCategory(globalCategories, category)
         /\ storedCategories' =
               IF globalCategories' # globalCategories
               THEN globalCategories' ELSE storedCategories
         /\ UNCHANGED <<isCategoryDialogOpen, projectSearch, selectedCategories,
                        isDiscoveryMode, isLoading, pending>>
    ELSE UNCHANGED vars

\* Lines 122-139: the new list goes to setProjects of utils/store (line 133),
\* not to setProjectsState, so the projects state keeps its value and the
\* effect of lines 83-85 does not run.
removeCategory(categoryId) ==
    IF selectedProject # <<>>
    THEN /\ storedProjects' = removeCategoryUpdate(projects, selectedProject[1], categoryId)
         /\ selectedProject' = <<selectedWithoutCategory(selectedProject[1], categoryId)>>
         /\ UNCHANGED <<projects, globalCategories, isCategoryDialogOpen, projectSearch,
                        selectedCategories, isDiscoveryMode, isLoading,
                        storedCategories, pending>>
    ELSE UNCHANGED vars

\* The CategoryDialog of lines 469-477 emits add and remove events while it is
\* mounted (a project is selected) and open.
dialogAddCategory(category) ==
    /\ selectedProject # <<>>
    /\ isCategoryDialogOpen
    /\ Len(selectedProject[1].categories) < MaxCats
    /\ \A i \in 1..Len(projects) : Len(projects[i].categories) < MaxCats
    /\ addCategory(category)

dialogRemoveCategory(categoryId) ==
    /\ selectedProject # <<>>
    /\ isCategoryDialogOpen
    /\ removeCategory(categoryId)

\* handleSelectRepo up to its await (lines 301-307): the loading flag is set
\* and a getRepoDetails promise is in flight.  GitHubDiscovery is mounted in
\* discovery mode when no project is selected (lines 402-419).
handleSelectRepo(repo, ok) ==
    /\ selectedProject = <<>>
    /\ isDiscoveryMode
    /\ Len(projects) + BagCardinality(pending) < MaxProjects
    /\ isLoading' = TRUE
    /\ pending' = pending (+) SetToBag({[repo |-> repo, ok |-> ok, details |-> detailsOf(repo)]})
    /\ UNCHANGED <<projects, globalCategories, selectedProject, isCategoryDialogOpen,
                   projectSearch, selectedCategories, isDiscoveryMode,
                   storedProjects, storedCategories>>

\* Fault: the loading flag is cleared in the catch block only.
handleSelectRepoResolvedKeepsLoading(fetch) ==
    /\ BagIn(fetch, pending)
    /\ fetch.ok
    /\ pending' = pending (-) SetToBag({fetch})
    /\ projects' = addProjectUpdate(projects, newProject(fetch.repo, fetch.details))
    /\ storedProjects' = projects'
    /\ isDiscoveryMode' = FALSE
    /\ UNCHANGED <<globalCategories, selectedProject, isCategoryDialogOpen,
                   projectSearch, selectedCategories, storedCategories, isLoading>>

\* The continuation after the await when the promise resolves
\* (lines 309-348, then finally, line 354).
handleSelectRepoResolved(fetch) ==
    /\ BagIn(fetch, pending)
    /\ fetch.ok
    /\ pending' = pending (-) SetToBag({fetch})
    /\ projects' = addProjectUpdate(projects, newProject(fetch.repo, fetch.details))
    /\ storedProjects' = projects'
    /\ isDiscoveryMode' = FALSE
    /\ isLoading' = FALSE
    /\ UNCHANGED <<globalCategories, selectedProject, isCategoryDialogOpen,
                   projectSearch, selectedCategories, storedCategories>>

\* Fault: the catch block adds a fallback project built from the repository
\* record alone.
handleSelectRepoRejectedFallback(fetch) ==
    /\ BagIn(fetch, pending)
    /\ ~fetch.ok
    /\ pending' = pending (-) SetToBag({fetch})
    /\ projects' = addProjectUpdate(projects, newProject(fetch.repo, [languages |-> <<>>]))
    /\ storedProjects' = projects'
    /\ isLoading' = FALSE
    /\ UNCHANGED <<globalCategories, selectedProject, isCategoryDialogOpen,
                   projectSearch, selectedCategories, isDiscoveryMode, storedCategories>>

\* The continuation when the promise rejects (catch, lines 349-352, then
\* finally, line 354).
handleSelectRepoRejected(fetch) ==
    /\ BagIn(fetch, pending)
    /\ ~fetch.ok
    /\ pending' = pending (-) SetToBag({fetch})
    /\ isLoading' = FALSE
    /\ UNCHANGED <<projects, globalCategories, selectedProject, isCategoryDialogOpen,
                   projectSearch, selectedCategories, isDiscoveryMode,
                   storedProjects, storedCategories>>

\* UnifiedProjectView's remove callback (line 465) is removeProject itself;
\* the view, whose code is not part of the page, may or may not call onBack
\* in the same event.
viewRemoveProject(back) ==
    /\ selectedProject # <<>>
    /\ projects' = removeProjectUpdate(projects, selectedProject[1].id)
    /\ storedProjects' = projects'
    /\ selectedProject' = IF back THEN <<>> ELSE selectedProject
    /\ UNCHANGED <<globalCategories, isCategoryDialogOpen, projectSearch,
                   selectedCategories, isDiscoveryMode, isLoading,
                   storedCategories, pending>>

Next ==
    \/ toggleDiscoveryMode
    \/ \E i \in 1..Len(filteredProjects) : selectProject(i)
    \/ \E i \in 1..Len(filteredProjects) : cardRemoveProject(i)
    \/ onBack
    \/ \E open \in BOOLEAN : setIsCategoryDialogOpen(open)
    \/ \E category \in Categories : dialogAddCategory(category)
    \/ \E categoryId \in CategoryIds : dialogRemoveCategory(categoryId)
    \/ \E repo \in Repos, ok \in BOOLEAN : handleSelectRepo(repo, ok)
    \/ \E fetch \in BagToSet(pending) : handleSelectRepoResolved(fetch)
    \/ \E fetch \in BagToSet(pending) : handleSelectRepoRejected(fetch)
    \/ \E back \in BOOLEAN : viewRemoveProject(back)

Spec == Init /\ [][Next]_vars

(***************************************************************************)
(* The same page when the detail view goes back in the event in which it   *)
(* removes its project.                                                    *)
(***************************************************************************)
NextBack ==
    \/ toggleDiscoveryMode
    \/ \E i \in 1..Len(filteredProjects) : selectProject(i)
    \/ \E i \in 1..Len(filteredProjects) : cardRemoveProject(i)
    \/ onBack
    \/ \E open \in BOOLEAN : setIsCategoryDialogOpen(open)
    \/ \E category \in Categories : dialogAddCategory(category)
    \/ \E categoryId \in CategoryIds : dialogRemoveCategory(categoryId)
    \/ \E repo \in Repos, ok \in BOOLEAN : handleSelectRepo(repo, ok)
    \/ \E fetch \in BagToSet(pending) : handleSelectRepoResolved(fetch)
    \/ \E fetch \in BagToSet(pending) : handleSelectRepoRejected(fetch)
    \/ viewRemoveProject(TRUE)

SpecBack == Init /\ [][NextBack]_vars

(***************************************************************************)
(* The filter over the lists the page can load: the component mounted over *)
(* a store that holds a project list and the two global categories, then   *)
(* the search box, the category filter and the cards.                      *)
(***************************************************************************)
SeqsUpTo(S, n) == UNION { [1..k -> S] : k \in 0..n }

FilterProjects ==
    { [newProject(repo, [languages |-> <<>>]) EXCEPT !.categories = cats] :
        repo \in Repos, cats \in { <<>>, <<Cat1>>, <<Cat3>>, <<Cat3, Cat1>> } }

InitFilter ==
    /\ projects \in SeqsUpTo(FilterProjects, MaxFilterLen)
    /\ globalCategories = <<Cat1, Cat3>>
    /\ selectedProject = <<>>
    /\ isCategoryDialogOpen = FALSE
    /\ projectSearch = <<>>
    /\ selectedCategories = <<>>
    /\ isDiscoveryMode = FALSE
    /\ isLoading = FALSE
    /\ storedProjects = projects
    /\ storedCategories = globalCategories
    /\ pending = EmptyBag

NextFilter ==
    \/ \E value \in SearchStrings : setProjectSearch(value)
    \/ \E categoryId \in CategoryIds : toggleCategoryFilter(categoryId)
    \/ \E i \in 1..Len(filteredProjects) : selectProject(i)
    \/ onBack

SpecFilter == InitFilter /\ [][NextFilter]_vars

(***************************************************************************)
(* The language normalisation over the byte-count maps a fetch can return: *)
(* the page in discovery mode with one fetch in flight, whose details hold *)
(* any map of up to MaxLangs languages.                                    *)
(***************************************************************************)
ByteCounts == { 1, 2, 3, 29, 100, 171, 300 }

InitLang ==
    /\ projects = <<>>
    /\ globalCategories = <<>>
    /\ selectedProject = <<>>
    /\ isCategoryDialogOpen = FALSE
    /\ projectSearch = <<>>
    /\ selectedCategories = <<>>
    /\ isDiscoveryMode = TRUE
    /\ isLoading = TRUE
    /\ storedProjects = <<>>
    /\ storedCategories = <<>>
    /\ \E repo \in Repos, ok \in BOOLEAN, bytes \in SeqsUpTo(ByteCounts, MaxLangs) :
          pending = SetToBag({[repo |-> repo, ok |-> ok,
                               details |-> [languages |-> LangMap(bytes)]]})

NextLang ==
    \/ \E fetch \in BagToSet(pending) : handleSelectRepoResolved(fetch)
    \/ \E fetch \in BagToSet(pending) : handleSelectRepoRejected(fetch)

SpecLang == InitLang /\ [][NextLang]_vars

(***************************************************************************)
(* Vocabulary of the properties.                                           *)
(***************************************************************************)
\* The elements of s at the indexes idx, in ascending index order.
Subsequence(s, idx) ==
    [k \in 1..Cardinality(idx) |->
        s[CHOOSE i \in idx : Cardinality({ j \in idx : j <= i }) = k]]

HasCategory(cats, categoryId) == \E j \in 1..Len(cats) : cats[j].id = categoryId

IndexesOfId(projs, id) == { i \in 1..Len(projs) : projs[i].id = id }

ProjectIds == { ToString(repo.id) : repo \in Repos }

IdsOf(projs) == [i \in 1..Len(projs) |-> projs[i].id]

\* The step is a removal of the projects with this id: by a card's trash
\* button or by the detail view.
RemoveStep(id) ==
    \/ removeProject(id)
    \/ /\ selectedProject # <<>>
       /\ selectedProject[1].id = id
       /\ \E back \in BOOLEAN : viewRemoveProject(back)

\* The promise fetch settles in this step.
Settles(fetch) ==
    /\ BagIn(fetch, pending)
    /\ pending' = pending (-) SetToBag({fetch})

\* The global list gains the category exactly when its name is new.
GlobalGainsIffNewName(category) ==
    LET known == category.name \in { g.name : g \in Range(globalCategories) }
    IN  /\ known => globalCategories' = globalCategories
        /\ ~known =>
              /\ Len(globalCategories') = Len(globalCategories) + 1
              /\ SubSeq(globalCategories', 1, Len(globalCategories)) = globalCategories
              /\ globalCategories'[Len(globalCategories')] = category

(***************************************************************************)
(* C1.  After removeCategory(categoryId) with a project selected, no       *)
(* project of the in-memory list with the selected id and not the          *)
(* selected-project view holds a category with that id, and the global     *)
(* category list is unchanged.                                             *)
(***************************************************************************)
C1_RemoveCategoryReachesListAndView ==
    [][\A categoryId \in CategoryIds :
          (selectedProject # <<>> /\ dialogRemoveCategory(categoryId)) =>
              /\ \A i \in IndexesOfId(projects', selectedProject[1].id) :
                    ~HasCategory(projects'[i].categories, categoryId)
              /\ ~HasCategory(selectedProject'[1].categories, categoryId)
              /\ globalCategories' = globalCategories]_vars

(***************************************************************************)
(* C2.  In every quiescent state the persisted project list equals the     *)
(* in-memory project list.                                                 *)
(***************************************************************************)
C2_StoredEqualsInMemory == storedProjects = projects

(***************************************************************************)
(* C10.  Whenever a project is selected, the list holds a project with the *)
(* selected id whose categories equal those of the selected-project view.  *)
(***************************************************************************)
C10_SelectionInSyncWithList ==
    selectedProject # <<>> =>
        \E i \in IndexesOfId(projects, selectedProject[1].id) :
            projects[i].categories = selectedProject[1].categories

(***************************************************************************)
(* C3 as stated.  addCategory(category) with a selected project that is in *)
(* the list lengthens the categories of that one project by exactly 1,     *)
(* changes the categories of no other project of the list, and the global  *)
(* list gains the category iff its name is new.                            *)
(***************************************************************************)
C3_ExactlyOneProjectGains ==
    [][\A category \in Categories :
          ( /\ selectedProject # <<>>
            /\ IndexesOfId(projects, selectedProject[1].id) # {}
            /\ dialogAddCategory(category) ) =>
              /\ Len(projects') = Len(projects)
              /\ \E i \in IndexesOfId(projects, selectedProject[1].id) :
                    /\ Len(projects'[i].categories) = Len(projects[i].categories) + 1
                    /\ \A j \in (1..Len(projects)) \ {i} :
                          projects'[j].categories = projects[j].categories
              /\ GlobalGainsIffNewName(category)]_vars

(***************************************************************************)
(* C3 amended.  addCategory(category) with a project selected appends the  *)
(* category to every project of the list whose id is the selected id       *)
(* (each of them one longer; more than one when ids repeat), leaves every  *)
(* project with another id as it was, and the global list gains the        *)
(* category iff its name is new.                                           *)
(***************************************************************************)
C3_EveryProjectWithIdGains ==
    [][\A category \in Categories :
          (selectedProject # <<>> /\ dialogAddCategory(category)) =>
              /\ Len(projects') = Len(projects)
              /\ \A i \in 1..Len(projects) :
                    IF projects[i].id = selectedProject[1].id
                    THEN /\ Len(projects'[i].categories) = Len(projects[i].categories) + 1
                         /\ projects'[i] =
                               [projects[i] EXCEPT !.categories = Append(@, category)]
                    ELSE projects'[i] = projects[i]
              /\ GlobalGainsIffNewName(category)]_vars

\* Two projects with one id have both gained the category added to the
\* selected one.
C3_Witness ==
    /\ selectedProject # <<>>
    /\ Len(projects) = 2
    /\ projects[1].id = projects[2].id
    /\ projects[1].categories # <<>>
    /\ projects[2].categories = projects[1].categories
    /\ selectedProject[1].categories = projects[1].categories
    /\ Len(globalCategories) = 1

C5_EveryResolvedFetchAppendsNoneLost ==
    [][/\ \A fetch \in BagToSet(pending) :
             (Settles(fetch) /\ fetch.ok) =>
                 /\ Len(projects') = Len(projects) + 1
                 /\ SubSeq(projects', 1, Len(projects)) = projects
                 /\ projects'[Len(projects')].id = ToString(fetch.repo.id)
       /\ \/ IdsOf(projects') = IdsOf(projects)
          \/ \E fetch \in BagToSet(pending) :
                /\ Settles(fetch)
                /\ fetch.ok
                /\ IdsOf(projects') = Append(IdsOf(projects), ToString(fetch.repo.id))
          \/ \E id \in ProjectIds :
                /\ RemoveStep(id)
                /\ IdsOf(projects') =
                      Subsequence(IdsOf(projects),
                                  (1..Len(projects)) \ IndexesOfId(projects, id))]_vars

\* A second project with the id of the first was appended after the first
\* had gained a category.
C5_Witness ==
    /\ Len(projects) = 2
    /\ projects[1].id = projects[2].id
    /\ projects[1].categories # <<>>
    /\ projects[2].categories = <<>>
    /\ BagCardinality(pending) = 0

ContainsIgnoringCase(str, sub) ==
    \E k \in 0..(Len(str) - Len(sub)) :
        \A j \in 1..Len(sub) : LowerChar(str[k + j]) = LowerChar(sub[j])

CategoryIdsOf(project) ==
    { project.categories[j].id : j \in 1..Len(project.categories) }

C7_FilterIsExactSubsequence ==
    /\ filteredProjects =
          Subsequence(projects,
              { i \in 1..Len(projects) :
                  /\ \/ ContainsIgnoringCase(projects[i].name, projectSearch)
                     \/ ContainsIgnoringCase(projects[i].description, projectSearch)
                  /\ Range(selectedCategories) \subseteq CategoryIdsOf(projects[i]) })
    /\ (projectSearch = <<>> /\ selectedCategories = <<>>) => filteredProjects = projects

\* A search string and two selected categories keep the second of two projects.
C7_Witness ==
    /\ projectSearch # <<>>
    /\ Len(selectedCategories) = 2
    /\ Len(projects) = 2
    /\ filteredProjects = <<projects[2]>>
    /\ projects[1] # projects[2]

(***************************************************************************)
(* C8 as stated.  The languages of the appended project hold, for every    *)
(* language of the map, round-half-up(100 * bytes / total bytes), are in   *)
(* descending order of percentage, and the percentages sum to at most 100. *)
(***************************************************************************)
Abs(x) == IF x < 0 THEN 0 - x ELSE x

BytesTotal(map) == Sum([i \in 1..Len(map) |-> map[i].bytes])

PercentageSum(langs) == Sum([i \in 1..Len(langs) |-> langs[i].percentage])

Descending(langs) ==
    \A j \in 1..(Len(langs) - 1) : langs[j].percentage >= langs[j + 1].percentage

C8_RoundHalfUpSumAtMost100 ==
    [][\A fetch \in BagToSet(pending) :
          (Settles(fetch) /\ fetch.ok) =>
              LET map == fetch.details.languages
                  out == projects'[Len(projects')].languages
              IN  /\ Len(out) = Len(map)
                  /\ \A i \in 1..Len(map) : \E j \in 1..Len(out) :
                        /\ out[j].name = map[i].name
                        /\ out[j].percentage =
                              ExactRoundHalfUp(map[i].bytes, BytesTotal(map))
                  /\ Descending(out)
                  /\ PercentageSum(out) <= 100]_vars

(***************************************************************************)
(* C8 amended.  The languages of the appended project hold, for every      *)
(* language of the map, an integer within 1/2 of 100 * bytes / total bytes *)
(* (round-half-up, except that an exact .5 may go down, the quotient       *)
(* being taken in double precision before the multiplication), are in      *)
(* descending order of percentage, and for a map of n >= 1 languages the   *)
(* percentages sum to within n/2 of 100, so possibly to more than 100.     *)
(***************************************************************************)
C8_NearestIntegerSumNear100 ==
    [][\A fetch \in BagToSet(pending) :
          (Settles(fetch) /\ fetch.ok) =>
              LET map == fetch.details.languages
                  out == projects'[Len(projects')].languages
              IN  /\ Len(out) = Len(map)
                  /\ \A i \in 1..Len(map) : \E j \in 1..Len(out) :
                        /\ out[j].name = map[i].name
                        /\ Abs(2 * out[j].percentage * BytesTotal(map)
                                  - 200 * map[i].bytes) <= BytesTotal(map)
                  /\ Descending(out)
                  /\ Len(map) >= 1 => 2 * Abs(PercentageSum(out) - 100) <= Len(map)]_vars

\* An appended project whose percentages sum to 101.
C8_Witness ==
    /\ Len(projects) = 1
    /\ PercentageSum(projects[1].languages) = 101
    /\ Descending(projects[1].languages)

(***************************************************************************)
(* C9 as stated.  The loading flag is true exactly when at least one fetch *)
(* is in flight.                                                           *)
(***************************************************************************)
C9_LoadingIffInFlight == isLoading <=> BagCardinality(pending) > 0

(***************************************************************************)
(* C9 amended.  The loading flag is true only while a fetch is in flight,  *)
(* so it is false once none is pending; every selection sets it and every  *)
(* settling fetch clears it, so after the first of two overlapping fetches *)
(* settles it is false although the other is still in flight; no other     *)
(* step changes it.                                                        *)
(***************************************************************************)
C9_LoadingSetBySelectClearedBySettle ==
    [][/\ isLoading' => BagCardinality(pending') > 0
       /\ BagCardinality(pending') > BagCardinality(pending) => isLoading'
       /\ BagCardinality(pending') < BagCardinality(pending) => ~isLoading'
       /\ BagCardinality(pending') = BagCardinality(pending) =>
             isLoading' = isLoading]_vars

\* One of two overlapping fetches has settled: the flag is down, a fetch is
\* in flight.
C9_Witness ==
    /\ ~isLoading
    /\ BagCardinality(pending) = 1

====
